---------------------------- MODULE Spec2Model ----------------------------
(***************************************************************************)
(* A model of the XOR cryptanalysis crates of cryptopals_solutions:        *)
(*   single_xor_cipher_3       (single-byte cracker, frequency model,      *)
(*                              chi-squared scorer)                        *)
(*   repeating_key_xor_5       (repeating-key XOR)                         *)
(*   break_repeating_key_xor_6 (Hamming distance, key-length estimator,    *)
(*                              multi-byte key recoverer)                  *)
(*                                                                         *)
(* Bytes are the integers 0..255.  Text is a sequence of Unicode scalar    *)
(* values.  An f32 is modelled by the exact rational <<n, d>> (d > 0, in   *)
(* lowest terms) it approximates; rounding is not modelled.  A Rust        *)
(* Result/Option is a record with an "ok"/"some" flag and fields that are  *)
(* meaningful only when the flag is TRUE.                                  *)
(***************************************************************************)
EXTENDS Integers, Sequences, FiniteSets, TLC

VARIABLES
    pc,                     \* position of the operation under way
    \* names shared by several functions
    key,                    \* multi_key_xor_encode, get_sized_key
    key_size,               \* get_likely_key_sizes, get_sized_key
    encoded_msg,            \* get_likely_key_sizes, get_sized_key
    reference_percentages,  \* single_xor_cipher_crack, get_sized_key
    \* get_hamming_distance
    buf1, buf2, hamming_result,
    \* multi_key_xor_encode
    msg, encoded, decoded,
    \* single_xor_cipher_crack
    encoded_bytes, try_key,
    smallest_chi, decoded_message, best_key, crack_result,
    \* get_likely_key_sizes
    min_key_size, max_key_size, no_of_sizes, keysizes, likely_key_sizes,
    msg_repeat,             \* times each byte of encoded_msg is repeated
    \* get_sized_key
    key_byte_no, sized_key_result,
    \* crack_base64_repeating_key_xor
    buffer, sizes_tried, best_chi_squared, best_decoded, repeating_result,
    \* get_character_percentages, get_chi_squared
    sample_text, sample_percentages, msg_percentages, chi_squared,
    \* get_file_character_percentages
    file_lines, lines_read, line, file_counts, counted_chars, frequencies,
    \* hex_to_binary_buffer, base64_to_binary_buf, base64_buf_to_utf8_string
    hex, base64, hex_buffer, base64_buffer, base64_string

hammingVars == <<buf1, buf2, hamming_result>>
xorVars     == <<msg, encoded, decoded>>
crackVars   == <<encoded_bytes, try_key,
                 smallest_chi, decoded_message, best_key, crack_result>>
estVars     == <<min_key_size, max_key_size, no_of_sizes, keysizes,
                 likely_key_sizes, msg_repeat>>
skVars      == <<key_byte_no, sized_key_result>>
rkVars      == <<buffer, sizes_tried, best_chi_squared, best_decoded,
                 repeating_result>>
freqVars    == <<sample_text, sample_percentages, msg_percentages,
                 chi_squared>>
fileVars    == <<file_lines, lines_read, line, file_counts, counted_chars,
                 frequencies>>
codecVars   == <<hex, base64, hex_buffer, base64_buffer, base64_string>>
vars == <<pc, key, key_size, encoded_msg, reference_percentages,
          hammingVars, xorVars, crackVars, estVars, skVars, rkVars,
          freqVars, fileVars, codecVars>>

-----------------------------------------------------------------------------
(* Bytes and bit operations (Rust's u8 ^ and &).                           *)

Byte == 0..255

Bit(x, i) == (x \div (2 ^ i)) % 2

XorTable ==
    [a \in Byte |-> [b \in Byte |->
        ((Bit(a, 0) + Bit(b, 0)) % 2)
      + ((Bit(a, 1) + Bit(b, 1)) % 2) * 2
      + ((Bit(a, 2) + Bit(b, 2)) % 2) * 4
      + ((Bit(a, 3) + Bit(b, 3)) % 2) * 8
      + ((Bit(a, 4) + Bit(b, 4)) % 2) * 16
      + ((Bit(a, 5) + Bit(b, 5)) % 2) * 32
      + ((Bit(a, 6) + Bit(b, 6)) % 2) * 64
      + ((Bit(a, 7) + Bit(b, 7)) % 2) * 128]]

Xor(a, b) == XorTable[a][b]

AndTable ==
    [a \in Byte |-> [b \in Byte |->
        (Bit(a, 0) * Bit(b, 0))
      + (Bit(a, 1) * Bit(b, 1)) * 2
      + (Bit(a, 2) * Bit(b, 2)) * 4
      + (Bit(a, 3) * Bit(b, 3)) * 8
      + (Bit(a, 4) * Bit(b, 4)) * 16
      + (Bit(a, 5) * Bit(b, 5)) * 32
      + (Bit(a, 6) * Bit(b, 6)) * 64
      + (Bit(a, 7) * Bit(b, 7)) * 128]]

And(a, b) == AndTable[a][b]

-----------------------------------------------------------------------------
(* Exact rationals standing for f32 values.                                *)

Abs(x) == IF x < 0 THEN -x ELSE x

RECURSIVE GCD(_, _)
GCD(a, b) == IF b = 0 THEN a ELSE GCD(b, a % b)

RNorm(n, d) ==
    LET s == IF d < 0 THEN -1 ELSE 1
        g == GCD(Abs(n), Abs(d))
    IN  <<(s * n) \div g, (s * d) \div g>>

RInt(n)    == <<n, 1>>
RAdd(x, y) == RNorm(x[1] * y[2] + y[1] * x[2], x[2] * y[2])
RSub(x, y) == RNorm(x[1] * y[2] - y[1] * x[2], x[2] * y[2])
RMul(x, y) == RNorm(x[1] * y[1], x[2] * y[2])
RDiv(x, y) == RNorm(x[1] * y[2], x[2] * y[1])
RLess(x, y) ==
    LET g == GCD(x[2], y[2])
    IN  x[1] * (y[2] \div g) < y[1] * (x[2] \div g)

-----------------------------------------------------------------------------
(* str::from_utf8: the well-formed byte sequences of UTF-8 and the scalar  *)
(* values they decode to.                                                  *)

IsCont(b) == b >= 128 /\ b <= 191

ByteAt(bytes, i) == IF i <= Len(bytes) THEN bytes[i] ELSE 0

\* Width of the well-formed sequence starting at index i, 0 when there is none.
Utf8Width(bytes, i) ==
    LET b0 == bytes[i]
        b1 == ByteAt(bytes, i + 1)
        b2 == ByteAt(bytes, i + 2)
        b3 == ByteAt(bytes, i + 3)
        n  == Len(bytes) - i + 1
    IN  IF b0 < 128 THEN 1
        ELSE IF b0 >= 194 /\ b0 <= 223
            THEN IF n >= 2 /\ IsCont(b1) THEN 2 ELSE 0
        ELSE IF b0 >= 224 /\ b0 <= 239
            THEN IF /\ n >= 3
                    /\ IsCont(b1)
                    /\ IsCont(b2)
                    /\ (b0 = 224 => b1 >= 160)
                    /\ (b0 = 237 => b1 <= 159)
                 THEN 3 ELSE 0
        ELSE IF b0 >= 240 /\ b0 <= 244
            THEN IF /\ n >= 4
                    /\ IsCont(b1)
                    /\ IsCont(b2)
                    /\ IsCont(b3)
                    /\ (b0 = 240 => b1 >= 144)
                    /\ (b0 = 244 => b1 <= 143)
                 THEN 4 ELSE 0
        ELSE 0

Utf8Scalar(bytes, i, w) ==
    CASE w = 1 -> bytes[i]
      [] w = 2 -> (bytes[i] - 192) * 64 + (bytes[i + 1] - 128)
      [] w = 3 -> (bytes[i] - 224) * 4096 + (bytes[i + 1] - 128) * 64
                    + (bytes[i + 2] - 128)
      [] w = 4 -> (bytes[i] - 240) * 262144 + (bytes[i + 1] - 128) * 4096
                    + (bytes[i + 2] - 128) * 64 + (bytes[i + 3] - 128)

RECURSIVE Utf8From(_, _, _)
Utf8From(bytes, i, acc) ==
    IF i > Len(bytes) THEN [ok |-> TRUE, text |-> acc]
    ELSE LET w == Utf8Width(bytes, i)
         IN  IF w = 0 THEN [ok |-> FALSE, text |-> <<>>]
             ELSE Utf8From(bytes, i + w, Append(acc, Utf8Scalar(bytes, i, w)))

from_utf8(bytes) == Utf8From(bytes, 1, <<>>)

-----------------------------------------------------------------------------
(* Hamming distance (break_repeating_key_xor_6).                           *)

\* Mutant: the bits of byte1 that byte2 lacks (`byte1 & !byte2`).
ByteDiff_Asymmetric(byte1, byte2) == And(byte1, 255 - byte2)

\* `byte1 ^ byte2`: a bit set for each bit that differs.
ByteDiff(byte1, byte2) == Xor(byte1, byte2)

\* Mutant: `if` for `while`, one count per differing byte.
CountSetBits_OncePerByte(xor, hamming) ==
    IF xor = 0 THEN hamming ELSE hamming + 1

\* `while xor != 0 { hamming += 1; xor &= xor - 1; }`
RECURSIVE CountSetBits(_, _)
CountSetBits(xor, hamming) ==
    IF xor = 0 THEN hamming
    ELSE CountSetBits(And(xor, xor - 1), hamming + 1)

\* zip ends with the shorter buffer.
ZipLen(b1, b2) == IF Len(b1) <= Len(b2) THEN Len(b1) ELSE Len(b2)

\* `for (byte1, byte2) in zip(buf1, buf2)` over the pairs first .. last - 1,
\* in order.  The range is split in halves and the count after the first half
\* is bound as a value before the second half starts, which keeps the
\* evaluation shallow.
RECURSIVE HammingLoop(_, _, _, _, _)
HammingLoop(b1, b2, first, last, hamming) ==
    IF first >= last THEN hamming
    ELSE IF first + 1 = last
    THEN CountSetBits(ByteDiff(b1[first], b2[first]), hamming)
    ELSE LET mid == (first + last) \div 2
         IN  CHOOSE after \in
                 { HammingLoop(b1, b2, mid, last, half) :
                     half \in {HammingLoop(b1, b2, first, mid, hamming)} } :
                 TRUE

HammingErr == [ok |-> FALSE, val |-> 0]

\* Mutant: the length check left out.
get_hamming_distance_NoLengthCheck(b1, b2) ==
    [ok |-> TRUE, val |-> HammingLoop(b1, b2, 1, ZipLen(b1, b2) + 1, 0)]

get_hamming_distance(b1, b2) ==
    IF Len(b1) # Len(b2) THEN HammingErr
    ELSE [ok |-> TRUE, val |-> HammingLoop(b1, b2, 1, ZipLen(b1, b2) + 1, 0)]

-----------------------------------------------------------------------------
(* Repeating-key XOR (repeating_key_xor_5).                                *)

\* Mutant: the key iterator does not start over.
CycleNext_NoRestart(pos, k) == IF pos >= Len(k) THEN pos ELSE pos + 1

\* `key.iter().cycle()`: the position after pos, starting over at the end.
CycleNext(pos, k) == IF pos >= Len(k) THEN 1 ELSE pos + 1

XorPanic == [panic |-> TRUE, bytes |-> <<>>]

\* `msg_byte ^ key_cycle.next().unwrap()` for each message byte: the cycle of
\* an empty key yields None and the unwrap panics.
RECURSIVE XorCycle(_, _, _, _, _)
XorCycle(m, k, i, pos, acc) ==
    IF i > Len(m) THEN [panic |-> FALSE, bytes |-> acc]
    ELSE IF Len(k) = 0 THEN XorPanic
    ELSE XorCycle(m, k, i + 1, CycleNext(pos, k), Append(acc, Xor(m[i], k[pos])))

multi_key_xor_encode(m, k) == XorCycle(m, k, 1, 1, <<>>)

-----------------------------------------------------------------------------
(* Key-length estimator (break_repeating_key_xor_6).                       *)

\* `as u8`
U8Range == 256
AsU8(x) == x % U8Range

\* Ord of (i32, u8): by score, then by key size.
PairGreater(a, b) == a[1] > b[1] \/ (a[1] = b[1] /\ a[2] > b[2])

RemoveAt(s, i) == SubSeq(s, 1, i - 1) \o SubSeq(s, i + 1, Len(s))

\* BinaryHeap<(i32, u8)>: the entries as a sequence in no particular order;
\* push adds an entry, pop removes a greatest one.
HeapPush(heap, entry) == Append(heap, entry)

\* Mutant: pop removes a smallest entry (a min-heap).
HeapPop_Smallest(heap) ==
    IF heap = <<>> THEN heap
    ELSE RemoveAt(heap, CHOOSE i \in 1..Len(heap) :
                     \A j \in 1..Len(heap) : ~PairGreater(heap[i], heap[j]))

HeapPop(heap) ==
    IF heap = <<>> THEN heap
    ELSE RemoveAt(heap, CHOOSE i \in 1..Len(heap) :
                     \A j \in 1..Len(heap) : ~PairGreater(heap[j], heap[i]))

Max2(a, b) == IF a >= b THEN a ELSE b
Min2(a, b) == IF a <= b THEN a ELSE b

FirstKeySize(min_size) == Max2(1, min_size)
LastKeySize(max_size, m) == Min2(max_size, Len(m) \div 2)

\* The `while end <= encoded_msg.len()` loop: the sum of the Hamming
\* distances of consecutive blocks; the unwrap panics on an Err.
RECURSIVE TotalHamming(_, _, _, _)
TotalHamming(m, size, start, total_hamming) ==
    LET middle == start + size
        end == start + 2 * size
    IN  IF end > Len(m) THEN [panic |-> FALSE, val |-> total_hamming]
        ELSE LET h == get_hamming_distance(SubSeq(m, start + 1, middle),
                                           SubSeq(m, middle + 1, end))
             IN  IF ~h.ok THEN [panic |-> TRUE, val |-> 0]
                 ELSE TotalHamming(m, size, start + size, total_hamming + h.val)

\* The number the average is taken over.
AverageDivisor(m, size) == Len(m) \div size

\* i32::MAX
MaxI32 == 2147483647

\* `average_hamming * 1000` does not fit an i32.
MulOverflows(average_hamming) == average_hamming > MaxI32 \div 1000

\* `average_hamming * 1000` as a wrapping i32 multiplication, for
\* 0 <= average_hamming <= MaxI32; the product is put together from a high
\* and a low part that each fit 32 bits.
WrappingMul(average_hamming) ==
    LET x == ((average_hamming \div 2048) * 1000) % 2097152
        high == IF x >= 1048576 THEN (x - 2097152) * 2048 ELSE x * 2048
        low == (average_hamming % 2048) * 1000
    IN  IF high > MaxI32 - low
        THEN (high - MaxI32 - 1) + (low - MaxI32 - 1)
        ELSE high + low

\* i32 `/` with a positive divisor: the quotient is truncated towards zero.
TruncDiv(n, d) == IF n >= 0 THEN n \div d ELSE (n + d - 1) \div d

\* The score pushed for a key size; a division by zero panics.  `overflow`
\* tells that the multiplication by 1000 left the i32 range, and val is then
\* the score computed from the wrapped product.
KeySizeScore(m, size) ==
    LET total == TotalHamming(m, size, 0, 0)
        divisor == AverageDivisor(m, size)
    IN  IF total.panic \/ divisor = 0
        THEN [panic |-> TRUE, overflow |-> FALSE, val |-> 0]
        ELSE LET average_hamming == total.val \div divisor
             IN  IF MulOverflows(average_hamming)
                 THEN [panic |-> FALSE, overflow |-> TRUE,
                       val |-> TruncDiv(WrappingMul(average_hamming), size)]
                 ELSE [panic |-> FALSE, overflow |-> FALSE,
                       val |-> TruncDiv(average_hamming * 1000, size)]

\* The test that pops after a push.
OverCapacity(heap, count) == Len(heap) > count

\* One iteration of the key size loop.
EstimatorIteration(heap, m, size, count) ==
    CHOOSE r \in
        { LET pushed == HeapPush(heap, <<score.val, AsU8(size)>>)
          IN  IF score.panic
              THEN [panic |-> TRUE, overflow |-> FALSE, heap |-> heap]
              ELSE [panic |-> FALSE, overflow |-> score.overflow,
                    heap |-> IF OverCapacity(pushed, count)
                             THEN HeapPop(pushed) ELSE pushed] :
            score \in {KeySizeScore(m, size)} } : TRUE

\* Mutant: the early return left out.
RequestedNone_Never(count) == FALSE

\* `if no_of_sizes == 0`
RequestedNone(count) == count = 0

\* No key size evaluated yet.
EstimatorStart == [panic |-> FALSE, overflow |-> FALSE, heap |-> <<>>]

\* The key size loop; `overflow` tells that some iteration's multiplication
\* left the i32 range.
RECURSIVE EstimatorLoop(_, _, _, _, _)
EstimatorLoop(st, m, size, last, count) ==
    IF size > last THEN st
    ELSE LET r == EstimatorIteration(st.heap, m, size, count)
         IN  IF r.panic THEN r
             ELSE EstimatorLoop([r EXCEPT !.overflow = st.overflow \/ @],
                                m, size + 1, last, count)

\* The heap get_likely_key_sizes ends with; into_iter yields its key sizes in
\* an order the heap does not specify.
get_likely_key_sizes(m, min_size, max_size, count) ==
    IF RequestedNone(count) THEN EstimatorStart
    ELSE EstimatorLoop(EstimatorStart, m, FirstKeySize(min_size),
                       LastKeySize(max_size, m), count)

\* The orders into_iter may yield a heap's entries in.
HeapOrders(heap) ==
    {[i \in 1..Len(heap) |-> heap[p[i]]] : p \in Permutations(1..Len(heap))}

KeySizesOf(entries) == [i \in 1..Len(entries) |-> entries[i][2]]

-----------------------------------------------------------------------------
(* Frequency model and fitness scorer (single_xor_cipher_3).               *)

RECURSIVE CountChars(_, _, _)
CountChars(text, i, counts) ==
    IF i > Len(text) THEN counts
    ELSE LET c == text[i]
         IN  CountChars(text, i + 1,
                 IF c \in DOMAIN counts
                 THEN [counts EXCEPT ![c] = @ + 1]
                 ELSE counts @@ (c :> 1))

\* Mutant: every character that occurs is counted once.
get_character_frequencies_Distinct(text) ==
    [c \in {text[i] : i \in 1..Len(text)} |-> 1]

get_character_frequencies(text) == CountChars(text, 1, <<>>)

get_character_percentages(text) ==
    LET total_chars == Len(text)
        counts == get_character_frequencies(text)
    IN  [c \in DOMAIN counts |->
            RDiv(RInt(counts[c]), RDiv(RInt(total_chars), RInt(100)))]

\* Mutant: the message map is never consulted.
Lookup_AlwaysZero(table, c) == RInt(0)

\* `map.get(char).unwrap_or(&0.0)`
Lookup(table, c) == IF c \in DOMAIN table THEN table[c] ELSE RInt(0)

\* First loop: every character of the reference, scored against the message.
RECURSIVE ChiReferencePass(_, _, _)
ChiReferencePass(chars, reference, message) ==
    IF chars = {} THEN RInt(0)
    ELSE LET c == CHOOSE x \in chars : TRUE
             frequency == reference[c]
             difference == RSub(Lookup(message, c), frequency)
         IN  RAdd(RDiv(RMul(difference, difference), frequency),
                  ChiReferencePass(chars \ {c}, reference, message))

\* Second loop: the characters left in the message map after the removals.
RECURSIVE ChiMessagePass(_, _, _)
ChiMessagePass(chars, reference, message) ==
    IF chars = {} THEN RInt(0)
    ELSE LET c == CHOOSE x \in chars : TRUE
             frequency == message[c]
             difference == RSub(Lookup(reference, c), frequency)
         IN  RAdd(RDiv(RMul(difference, difference), frequency),
                  ChiMessagePass(chars \ {c}, reference, message))

get_chi_squared(reference, message) ==
    RAdd(ChiReferencePass(DOMAIN reference, reference, message),
         ChiMessagePass(DOMAIN message \ DOMAIN reference, reference, message))

-----------------------------------------------------------------------------
(* Single-byte cracker (single_xor_cipher_3).                              *)

XorEach(bytes, k) == [i \in 1..Len(bytes) |-> Xor(bytes[i], k)]

apply_xor_cipher(k, bytes) == from_utf8(XorEach(bytes, k))

None(v)  == [some |-> FALSE, val |-> v]
Some(v)  == [some |-> TRUE, val |-> v]

\* `for key in 0..255`: the keys tried are 0 .. KeyRangeEnd - 1.
KeyRangeEnd == 255

CrackStart ==
    [smallest_chi |-> None(RInt(0)), decoded_message |-> None(<<>>),
     best_key |-> None(0)]

Score(reference, text) ==
    get_chi_squared(reference, get_character_percentages(text))

\* A comparison that also replaces the provisional values on an equal score.
IsBetter_OrEqual(new_chi, smallest) ==
    ~smallest.some \/ ~RLess(smallest.val, new_chi)

\* The comparison that replaces the provisional return values.
IsBetter(new_chi, smallest) == ~smallest.some \/ RLess(new_chi, smallest.val)

\* One iteration of the key loop.
CrackIteration(st, k, bytes, reference) ==
    LET decode_attempt == apply_xor_cipher(k, bytes)
    IN  IF ~decode_attempt.ok THEN st
        ELSE LET new_chi == Score(reference, decode_attempt.text)
             IN  IF IsBetter(new_chi, st.smallest_chi)
                 THEN [smallest_chi |-> Some(new_chi),
                       decoded_message |-> Some(decode_attempt.text),
                       best_key |-> Some(k)]
                 ELSE st

CrackErr == [ok |-> FALSE, key |-> 0, text |-> <<>>]

CrackFinish(st) ==
    IF ~st.smallest_chi.some THEN CrackErr
    ELSE [ok |-> TRUE, key |-> st.best_key.val, text |-> st.decoded_message.val]

\* The key loop over first .. last - 1, in ascending order.  The range is
\* split in halves and the state after the first half is bound as a value
\* before the second half starts, which keeps the evaluation shallow.
RECURSIVE CrackLoop(_, _, _, _, _)
CrackLoop(first, last, st, bytes, reference) ==
    IF first >= last THEN st
    ELSE IF first + 1 = last THEN CrackIteration(st, first, bytes, reference)
    ELSE LET mid == (first + last) \div 2
         IN  CHOOSE after \in
                 { CrackLoop(mid, last, half, bytes, reference) :
                     half \in {CrackLoop(first, mid, st, bytes, reference)} } :
                 TRUE

single_xor_cipher_crack(bytes, reference) ==
    CrackFinish(CrackLoop(0, KeyRangeEnd, CrackStart, bytes, reference))

-----------------------------------------------------------------------------
(* Multi-byte key recoverer (break_repeating_key_xor_6).                   *)

\* The bytes the key byte applies to: `if idx % key_size == key_byte_no`.
RECURSIVE CollectBytes(_, _, _, _, _)
CollectBytes(m, size, byte_no, idx, current_encoded_bytes) ==
    IF idx >= Len(m) THEN current_encoded_bytes
    ELSE CollectBytes(m, size, byte_no, idx + 1,
             IF idx % size = byte_no
             THEN Append(current_encoded_bytes, m[idx + 1])
             ELSE current_encoded_bytes)

\* Mutant: a cracker failure skips the key byte instead of returning.
SizedKeyIteration_SkipFailed(m, size, reference, byte_no, acc) ==
    LET cracked == single_xor_cipher_crack(
                       CollectBytes(m, size, byte_no, 0, <<>>), reference)
    IN  IF ~cracked.ok THEN [failed |-> FALSE, key |-> acc]
        ELSE [failed |-> FALSE, key |-> Append(acc, cracked.key)]

\* One key byte: `key.push(single_xor_cipher_crack(..)?.0)`.
SizedKeyIteration(m, size, reference, byte_no, acc) ==
    LET cracked == single_xor_cipher_crack(
                       CollectBytes(m, size, byte_no, 0, <<>>), reference)
    IN  IF ~cracked.ok THEN [failed |-> TRUE, key |-> <<>>]
        ELSE [failed |-> FALSE, key |-> Append(acc, cracked.key)]

RECURSIVE SizedKeyLoop(_, _, _, _, _)
SizedKeyLoop(m, size, reference, byte_no, acc) ==
    IF byte_no >= size THEN [ok |-> TRUE, key |-> acc]
    ELSE LET r == SizedKeyIteration(m, size, reference, byte_no, acc)
         IN  IF r.failed THEN [ok |-> FALSE, key |-> <<>>]
             ELSE SizedKeyLoop(m, size, reference, byte_no + 1, r.key)

get_sized_key(m, size, reference) == SizedKeyLoop(m, size, reference, 0, <<>>)

\* One key size of crack_base64_repeating_key_xor: no key, a panic of the
\* decoding, a decoding that is not UTF-8, or a scored decoding.
TryKeySize(buf, size, reference) ==
    LET recovered == get_sized_key(buf, size, reference)
        xored == multi_key_xor_encode(buf, recovered.key)
        decoded_str == from_utf8(xored.bytes)
        outcome(kind, text, chi) == [kind |-> kind, text |-> text, chi |-> chi]
    IN  IF ~recovered.ok THEN outcome("no_key", <<>>, RInt(0))
        ELSE IF xored.panic THEN outcome("panic", <<>>, RInt(0))
        ELSE IF ~decoded_str.ok THEN outcome("invalid", <<>>, RInt(0))
        ELSE outcome("scored", decoded_str.text,
                     Score(reference, decoded_str.text))

-----------------------------------------------------------------------------
(* Inputs of the single-byte cracker.                                      *)

MaxChars == 3
MaxRaw == 2

RECURSIVE SeqsUpTo(_, _)
SeqsUpTo(S, n) ==
    IF n = 0 THEN {<<>>}
    ELSE LET shorter == SeqsUpTo(S, n - 1)
         IN  shorter \cup {Append(s, x) : s \in shorter, x \in S}

Utf8Encode(c) ==
    IF c < 128 THEN <<c>>
    ELSE IF c < 2048 THEN <<192 + (c \div 64), 128 + (c % 64)>>
    ELSE IF c < 65536
        THEN <<224 + (c \div 4096), 128 + ((c \div 64) % 64), 128 + (c % 64)>>
    ELSE <<240 + (c \div 262144), 128 + ((c \div 4096) % 64),
           128 + ((c \div 64) % 64), 128 + (c % 64)>>

RECURSIVE Utf8EncodeText(_)
Utf8EncodeText(text) ==
    IF text = <<>> THEN <<>>
    ELSE Utf8Encode(Head(text)) \o Utf8EncodeText(Tail(text))

\* 'a', U+10000 and U+10FFFF; the raw bytes add 'a' and ' ', which a key of
\* 0x41 swaps.
CrackChars == {97, 65536, 1114111}
CrackCipherKeys == {0, 255}
CrackRawBytes == {0, 128, 97, 32}

\* XOR-encodings of short texts, and short raw byte strings.
Ciphertexts ==
    {XorEach(Utf8EncodeText(t), k) :
        t \in SeqsUpTo(CrackChars, MaxChars), k \in CrackCipherKeys}
    \cup SeqsUpTo(CrackRawBytes, MaxRaw)

\* Reference tables as get_file_character_percentages yields them for a
\* corpus of 100 characters: 'a', ' ' and '\n'.
ReferenceTables ==
    {(97 :> RInt(50)) @@ (32 :> RInt(30)) @@ (10 :> RInt(20))}

NoCrackResult == [ok |-> FALSE, key |-> 0, text |-> <<>>]

NoKeySizes == [panic |-> FALSE, sizes |-> <<>>]

NoSizedKey == [ok |-> FALSE, key |-> <<>>]

IdleSizedKey == key_byte_no = 0 /\ sized_key_result = NoSizedKey

NoDecoding == [ok |-> FALSE, text |-> <<>>]

IdleRepeating ==
    /\ buffer = <<>>
    /\ sizes_tried = 0
    /\ best_chi_squared = None(RInt(0))
    /\ best_decoded = None(<<>>)
    /\ repeating_result = NoDecoding

IdleEstimator ==
    /\ min_key_size = 0
    /\ max_key_size = 0
    /\ no_of_sizes = 0
    /\ keysizes = <<>>
    /\ likely_key_sizes = NoKeySizes
    /\ msg_repeat = 1

NoChiSquared == None(RInt(0))

IdleFrequency ==
    /\ sample_text = <<>>
    /\ sample_percentages = <<>>
    /\ msg_percentages = <<>>
    /\ chi_squared = NoChiSquared

IdleFile ==
    /\ file_lines = <<>>
    /\ lines_read = 0
    /\ line = <<>>
    /\ file_counts = <<>>
    /\ counted_chars = 0
    /\ frequencies = <<>>

NoBuffer == [ok |-> FALSE, bytes |-> <<>>]

IdleCodec ==
    /\ hex = <<>>
    /\ base64 = <<>>
    /\ hex_buffer = NoBuffer
    /\ base64_buffer = NoBuffer
    /\ base64_string = <<>>

IdleHamming == buf1 = <<>> /\ buf2 = <<>> /\ hamming_result = HammingErr
NoXorResult == [panic |-> FALSE, bytes |-> <<>>]
IdleXor == msg = <<>> /\ encoded = NoXorResult /\ decoded = NoXorResult

InitCrack ==
    /\ pc = "crack_loop"
    /\ encoded_bytes \in Ciphertexts
    /\ reference_percentages \in ReferenceTables
    /\ try_key = 0
    /\ smallest_chi = CrackStart.smallest_chi
    /\ decoded_message = CrackStart.decoded_message
    /\ best_key = CrackStart.best_key
    /\ crack_result = NoCrackResult
    /\ key = <<>>
    /\ key_size = 0
    /\ encoded_msg = <<>>
    /\ IdleHamming
    /\ IdleXor
    /\ IdleEstimator
    /\ IdleSizedKey
    /\ IdleRepeating
    /\ IdleFrequency
    /\ IdleFile
    /\ IdleCodec

notCrackVars ==
    <<key, key_size, encoded_msg, reference_percentages, hammingVars, xorVars,
      estVars, skVars, rkVars, freqVars, fileVars, codecVars>>

CrackLocals ==
    [smallest_chi |-> smallest_chi, decoded_message |-> decoded_message,
     best_key |-> best_key]

\* The decode attempt is not valid UTF-8: `continue`.
CrackSkipKey ==
    /\ pc = "crack_loop"
    /\ try_key < KeyRangeEnd
    /\ ~apply_xor_cipher(try_key, encoded_bytes).ok
    /\ try_key' = try_key + 1
    /\ UNCHANGED <<pc, encoded_bytes, smallest_chi, decoded_message, best_key,
                   crack_result>>
    /\ UNCHANGED notCrackVars

\* The decode attempt is valid UTF-8: it is scored and kept when better.
CrackScoreKey ==
    /\ pc = "crack_loop"
    /\ try_key < KeyRangeEnd
    /\ apply_xor_cipher(try_key, encoded_bytes).ok
    /\ LET st == CrackIteration(CrackLocals, try_key, encoded_bytes,
                                reference_percentages)
       IN  /\ smallest_chi' = st.smallest_chi
           /\ decoded_message' = st.decoded_message
           /\ best_key' = st.best_key
    /\ try_key' = try_key + 1
    /\ UNCHANGED <<pc, encoded_bytes, crack_result>>
    /\ UNCHANGED notCrackVars

CrackReturn ==
    /\ pc = "crack_loop"
    /\ try_key >= KeyRangeEnd
    /\ crack_result' = CrackFinish(CrackLocals)
    /\ pc' = "crack_done"
    /\ UNCHANGED <<encoded_bytes, try_key, smallest_chi, decoded_message,
                   best_key>>
    /\ UNCHANGED notCrackVars

NextCrack == CrackSkipKey \/ CrackScoreKey \/ CrackReturn

SpecCrack == InitCrack /\ [][NextCrack]_vars

-----------------------------------------------------------------------------
(* Claims about the single-byte cracker.                                   *)

ValidKeys(bytes) == {k \in Byte : apply_xor_cipher(k, bytes).ok}

KeyScore(k, bytes, reference) ==
    Score(reference, apply_xor_cipher(k, bytes).text)

\* C1: the cracker examines all 256 candidate keys: the key it returns
\* decodes to valid text with the minimum chi-squared score over every key in
\* 0..=255 that decodes to valid text, and no valid candidate is left unscored.
C1_AllCandidatesScored ==
    pc = "crack_done" =>
        /\ \A k \in ValidKeys(encoded_bytes) : k < try_key
        /\ crack_result.ok =>
            /\ crack_result.key \in ValidKeys(encoded_bytes)
            /\ \A k \in ValidKeys(encoded_bytes) :
                ~RLess(KeyScore(k, encoded_bytes, reference_percentages),
                       KeyScore(crack_result.key, encoded_bytes,
                                reference_percentages))

\* C2: the cracker fails with NoValidKey exactly when every one of the 256
\* candidate keys decodes the ciphertext to invalid UTF-8.
C2_NoValidKeyIff ==
    pc = "crack_done" =>
        (~crack_result.ok <=> ValidKeys(encoded_bytes) = {})

-----------------------------------------------------------------------------
(* get_hamming_distance applied to pairs of short buffers.                 *)

MaxBufLen == 2

\* 0x00, 0x01, 0xAA, 0xFF
HammingBytes == {0, 1, 170, 255}

IdleCrack ==
    /\ encoded_bytes = <<>>
    /\ try_key = 0
    /\ smallest_chi = CrackStart.smallest_chi
    /\ decoded_message = CrackStart.decoded_message
    /\ best_key = CrackStart.best_key
    /\ crack_result = NoCrackResult

InitHamming ==
    /\ pc = "hamming_call"
    /\ buf1 \in SeqsUpTo(HammingBytes, MaxBufLen)
    /\ buf2 \in SeqsUpTo(HammingBytes, MaxBufLen)
    /\ hamming_result = HammingErr
    /\ key = <<>>
    /\ key_size = 0
    /\ encoded_msg = <<>>
    /\ reference_percentages = <<>>
    /\ IdleXor
    /\ IdleCrack
    /\ IdleEstimator
    /\ IdleSizedKey
    /\ IdleRepeating
    /\ IdleFrequency
    /\ IdleFile
    /\ IdleCodec

HammingCall ==
    /\ pc = "hamming_call"
    /\ hamming_result' = get_hamming_distance(buf1, buf2)
    /\ pc' = "hamming_done"
    /\ UNCHANGED <<buf1, buf2, key, key_size, encoded_msg,
                   reference_percentages, xorVars, crackVars, estVars, skVars,
                   rkVars, freqVars, fileVars, codecVars>>

NextHamming == HammingCall

SpecHamming == InitHamming /\ [][NextHamming]_vars

\* Number of bit positions in which two bytes differ.
BitsDiffering(a, b) == Cardinality({i \in 0..7 : Bit(a, i) # Bit(b, i)})

RECURSIVE SumBitsDiffering(_, _, _)
SumBitsDiffering(a, b, i) ==
    IF i > Len(a) THEN 0
    ELSE BitsDiffering(a[i], b[i]) + SumBitsDiffering(a, b, i + 1)

\* C7: for equal-length buffers get_hamming_distance returns Ok(n) with n the
\* number of bit positions in which the buffers differ; two empty buffers
\* give Ok(0).
C7_HammingCountsDifferingBits ==
    (pc = "hamming_done" /\ Len(buf1) = Len(buf2)) =>
        /\ hamming_result.ok
        /\ hamming_result.val = SumBitsDiffering(buf1, buf2, 1)
        /\ (buf1 = <<>> => hamming_result.val = 0)

C7_Witness ==
    /\ pc = "hamming_done"
    /\ Len(buf1) = 2
    /\ Len(buf2) = 2
    /\ hamming_result.ok
    /\ hamming_result.val = 12

\* C8: for equal-length buffers the distance is symmetric, and the distance
\* of a buffer to itself is 0.
C8_HammingSymmetric ==
    (pc = "hamming_done" /\ Len(buf1) = Len(buf2)) =>
        /\ hamming_result = get_hamming_distance(buf2, buf1)
        /\ (buf1 = buf2 => hamming_result = [ok |-> TRUE, val |-> 0])

C8_Witness ==
    /\ pc = "hamming_done"
    /\ buf1 = <<1, 255>>
    /\ buf2 = <<170, 0>>
    /\ hamming_result = [ok |-> TRUE, val |-> 13]

\* C9: buffers of different lengths always give the LengthMismatch error,
\* never a distance over their common prefix.
C9_LengthMismatch ==
    (pc = "hamming_done" /\ Len(buf1) # Len(buf2)) => ~hamming_result.ok

C9_Witness ==
    /\ pc = "hamming_done"
    /\ buf1 = <<>>
    /\ Len(buf2) = 2
    /\ ~hamming_result.ok

-----------------------------------------------------------------------------
(* multi_key_xor_encode applied twice with the same key.                   *)

MaxMsgLen == 3
MaxKeyLen == 2

\* 0x00, 'I' and 0xFF
XorBytes == {0, 73, 255}
\* 'C' and 0xFF
XorKeyBytes == {67, 255}

InitXor ==
    /\ pc = "xor_encode"
    /\ msg \in SeqsUpTo(XorBytes, MaxMsgLen)
    /\ key \in SeqsUpTo(XorKeyBytes, MaxKeyLen)
    /\ encoded = NoXorResult
    /\ decoded = NoXorResult
    /\ key_size = 0
    /\ encoded_msg = <<>>
    /\ reference_percentages = <<>>
    /\ IdleHamming
    /\ IdleCrack
    /\ IdleEstimator
    /\ IdleSizedKey
    /\ IdleRepeating
    /\ IdleFrequency
    /\ IdleFile
    /\ IdleCodec

notXorVars ==
    <<key, key_size, encoded_msg, reference_percentages, hammingVars,
      crackVars, estVars, skVars, rkVars, freqVars, fileVars, codecVars>>

XorEncode ==
    /\ pc = "xor_encode"
    /\ encoded' = multi_key_xor_encode(msg, key)
    /\ pc' = "xor_decode"
    /\ UNCHANGED <<msg, decoded>>
    /\ UNCHANGED notXorVars

\* The encoding is fed back with the same key, unless the encoding panicked.
XorDecode ==
    /\ pc = "xor_decode"
    /\ ~encoded.panic
    /\ decoded' = multi_key_xor_encode(encoded.bytes, key)
    /\ pc' = "xor_done"
    /\ UNCHANGED <<msg, encoded>>
    /\ UNCHANGED notXorVars

NextXor == XorEncode \/ XorDecode

SpecXor == InitXor /\ [][NextXor]_vars

\* C10: for a non-empty key, encoding twice gives the message back, the
\* output is as long as the message, and output byte i is
\* M[i] XOR K[i mod len(K)].
C10_XorInvolution ==
    (pc = "xor_done" /\ key # <<>>) =>
        /\ ~encoded.panic
        /\ ~decoded.panic
        /\ decoded.bytes = msg
        /\ Len(encoded.bytes) = Len(msg)
        /\ \A i \in 1..Len(msg) :
            encoded.bytes[i] = Xor(msg[i], key[((i - 1) % Len(key)) + 1])

C10_Witness ==
    /\ pc = "xor_done"
    /\ key = <<67, 255>>
    /\ msg = <<73, 73, 0>>
    /\ encoded.bytes = <<10, 182, 67>>
    /\ decoded.bytes = msg

-----------------------------------------------------------------------------
(* get_likely_key_sizes, one key size per step.                            *)

MaxEncLen == 6

\* 0x00 and 0xFF
EstBytes == {0, 255}
EstMinSizes == {0, 1, 2}
EstMaxSizes == {0, 2, 3, 40}
EstCounts == {0, 1, 2, 3}

\* A message long enough for the key sizes 255, 256 and 257.
EstLongMsg == [i \in 1..(2 * (U8Range + 1)) |-> IF i <= 3 THEN 255 ELSE 0]

EstInputs ==
    (SeqsUpTo(EstBytes, MaxEncLen) \X EstMinSizes \X EstMaxSizes \X EstCounts)
    \cup ({EstLongMsg} \X {U8Range - 1} \X {U8Range + 1} \X {0, 1, 2})

InitEstimator ==
    /\ pc = "ks_start"
    /\ \E in \in EstInputs :
        /\ encoded_msg = in[1]
        /\ min_key_size = in[2]
        /\ max_key_size = in[3]
        /\ no_of_sizes = in[4]
    /\ msg_repeat = 1
    /\ key_size = 0
    /\ keysizes = <<>>
    /\ likely_key_sizes = NoKeySizes
    /\ key = <<>>
    /\ reference_percentages = <<>>
    /\ IdleHamming
    /\ IdleXor
    /\ IdleCrack
    /\ IdleSizedKey
    /\ IdleRepeating
    /\ IdleFrequency
    /\ IdleFile
    /\ IdleCodec

notEstVars ==
    <<key, reference_percentages, hammingVars, xorVars, crackVars, skVars,
      rkVars, freqVars, fileVars, codecVars>>

\* `if no_of_sizes == 0 { return Vec::new(); }`
EstimateNone ==
    /\ pc = "ks_start"
    /\ RequestedNone(no_of_sizes)
    /\ likely_key_sizes' = [panic |-> FALSE, sizes |-> <<>>]
    /\ pc' = "ks_done"
    /\ UNCHANGED <<key_size, encoded_msg, min_key_size, max_key_size,
                   no_of_sizes, msg_repeat, keysizes>>
    /\ UNCHANGED notEstVars

EstimateBegin ==
    /\ pc = "ks_start"
    /\ ~RequestedNone(no_of_sizes)
    /\ keysizes' = <<>>
    /\ key_size' = FirstKeySize(min_key_size)
    /\ pc' = "ks_loop"
    /\ UNCHANGED <<encoded_msg, min_key_size, max_key_size, no_of_sizes,
                   msg_repeat, likely_key_sizes>>
    /\ UNCHANGED notEstVars

\* One key size: its score is pushed, and the heap popped when over capacity.
\* When the multiplication by 1000 overflows, a build with overflow checks
\* panics and a build without them goes on with the wrapped product.
EstimateKeySize ==
    /\ pc = "ks_loop"
    /\ key_size <= LastKeySize(max_key_size, encoded_msg)
    /\ \E r \in {EstimatorIteration(keysizes, encoded_msg, key_size,
                                     no_of_sizes)} :
       \E overflow_checks \in (IF r.overflow THEN BOOLEAN ELSE {FALSE}) :
           IF r.panic \/ overflow_checks
           THEN /\ pc' = "ks_panic"
                /\ likely_key_sizes' = [panic |-> TRUE, sizes |-> <<>>]
                /\ UNCHANGED <<keysizes, key_size>>
           ELSE /\ keysizes' = r.heap
                /\ key_size' = key_size + 1
                /\ UNCHANGED <<pc, likely_key_sizes>>
    /\ UNCHANGED <<encoded_msg, min_key_size, max_key_size, no_of_sizes,
                   msg_repeat>>
    /\ UNCHANGED notEstVars

\* `keysizes.into_iter().map(|(_, key_size)| key_size).collect()`
EstimateReturn ==
    /\ pc = "ks_loop"
    /\ key_size > LastKeySize(max_key_size, encoded_msg)
    /\ \E order \in HeapOrders(keysizes) :
        likely_key_sizes' = [panic |-> FALSE, sizes |-> KeySizesOf(order)]
    /\ pc' = "ks_done"
    /\ UNCHANGED <<key_size, encoded_msg, min_key_size, max_key_size,
                   no_of_sizes, msg_repeat, keysizes>>
    /\ UNCHANGED notEstVars

NextEstimator ==
    EstimateNone \/ EstimateBegin \/ EstimateKeySize \/ EstimateReturn

SpecEstimator == InitEstimator /\ [][NextEstimator]_vars

-----------------------------------------------------------------------------
(* get_likely_key_sizes on long messages, one call per step.  The message  *)
(* is encoded_msg with each of its bytes repeated msg_repeat times.        *)

\* The message of the call.
Stretch(m, times) ==
    [i \in 1..(Len(m) * times) |-> m[((i - 1) \div times) + 1]]

MaxPatternLen == 3
EstRepeats == {1, 2}
EstLargeCounts == {0, 1, 2}

\* The smallest key size whose greatest average Hamming distance (two
\* blocks that differ in every bit: 8 * key_size / 2) times 1000 is above
\* MaxI32.
OverflowKeySize == MaxI32 \div 4000 + 1

\* Short messages, and one block of 0xFF followed by one block of 0x00 of
\* OverflowKeySize bytes each.
EstLargeInputs ==
    (SeqsUpTo(EstBytes, MaxPatternLen) \X EstRepeats \X EstMinSizes
        \X EstMaxSizes \X EstLargeCounts)
    \cup ({<<255, 0>>} \X {OverflowKeySize} \X {OverflowKeySize}
            \X {OverflowKeySize} \X {1})

InitEstimatorLarge ==
    /\ pc = "ks_call"
    /\ \E in \in EstLargeInputs :
        /\ encoded_msg = in[1]
        /\ msg_repeat = in[2]
        /\ min_key_size = in[3]
        /\ max_key_size = in[4]
        /\ no_of_sizes = in[5]
    /\ key_size = 0
    /\ keysizes = <<>>
    /\ likely_key_sizes = NoKeySizes
    /\ key = <<>>
    /\ reference_percentages = <<>>
    /\ IdleHamming
    /\ IdleXor
    /\ IdleCrack
    /\ IdleSizedKey
    /\ IdleRepeating
    /\ IdleFrequency
    /\ IdleFile
    /\ IdleCodec

\* The whole call.  When a multiplication by 1000 overflows, a build with
\* overflow checks panics and a build without them returns the key sizes
\* ranked by the wrapped products.
EstimateCall ==
    /\ pc = "ks_call"
    /\ \E r \in {get_likely_key_sizes(Stretch(encoded_msg, msg_repeat),
                                       min_key_size, max_key_size,
                                       no_of_sizes)} :
       \E overflow_checks \in (IF r.overflow THEN BOOLEAN ELSE {FALSE}) :
           IF r.panic \/ overflow_checks
           THEN /\ pc' = "ks_panic"
                /\ likely_key_sizes' = [panic |-> TRUE, sizes |-> <<>>]
                /\ UNCHANGED keysizes
           ELSE /\ pc' = "ks_done"
                /\ keysizes' = r.heap
                /\ \E order \in HeapOrders(r.heap) :
                     likely_key_sizes' =
                         [panic |-> FALSE, sizes |-> KeySizesOf(order)]
    /\ UNCHANGED <<key_size, encoded_msg, min_key_size, max_key_size,
                   no_of_sizes, msg_repeat>>
    /\ UNCHANGED notEstVars

NextEstimatorLarge == EstimateCall

SpecEstimatorLarge == InitEstimatorLarge /\ [][NextEstimatorLarge]_vars

\* C3: with no_of_sizes = 0 the result is empty for every message and every
\* min_key_size and max_key_size, and no candidate length is evaluated (the
\* key size loop is never entered).
C3_NoneRequested ==
    no_of_sizes = 0 =>
        /\ pc \in {"ks_start", "ks_done"}
        /\ key_size = 0
        /\ keysizes = <<>>
        /\ likely_key_sizes = [panic |-> FALSE, sizes |-> <<>>]

C3_Witness ==
    /\ pc = "ks_done"
    /\ no_of_sizes = 0
    /\ Len(encoded_msg) = 6
    /\ min_key_size = 1
    /\ max_key_size = 40
    /\ likely_key_sizes.sizes = <<>>

CandidateSizes ==
    FirstKeySize(min_key_size)..LastKeySize(max_key_size, encoded_msg)

ProcessedSizes ==
    IF pc = "ks_done" THEN CandidateSizes
    ELSE FirstKeySize(min_key_size)..(key_size - 1)

ScoreOf(size) == KeySizeScore(encoded_msg, size).val

\* C4: with no_of_sizes >= 1, after each candidate length the heap holds
\* min(no_of_sizes, lengths processed) entries, each the entry of a processed
\* length, and their scores are the smallest scores of the processed lengths
\* (so an evicted entry is one with the largest score); the result holds the
\* key sizes of the final heap, min(no_of_sizes, candidate lengths) of them.
C4_HeapKeepsSmallest ==
    (no_of_sizes >= 1 /\ pc \in {"ks_loop", "ks_done"}) =>
        \A score \in {[size \in ProcessedSizes |-> ScoreOf(size)]} :
        LET held == Len(keysizes)
        IN  /\ held = Min2(no_of_sizes, Cardinality(ProcessedSizes))
            /\ \A i \in 1..held : \E size \in ProcessedSizes :
                keysizes[i] = <<score[size], AsU8(size)>>
            /\ \A size \in ProcessedSizes :
                Cardinality({i \in 1..held : keysizes[i][1] <= score[size]})
                  = Min2(held, Cardinality({other \in ProcessedSizes :
                                              score[other] <= score[size]}))
            /\ pc = "ks_done" =>
                /\ ~likely_key_sizes.panic
                /\ Len(likely_key_sizes.sizes)
                     = Min2(no_of_sizes, Cardinality(CandidateSizes))
                /\ \E order \in HeapOrders(keysizes) :
                     likely_key_sizes.sizes = KeySizesOf(order)

C4_Witness ==
    /\ pc = "ks_done"
    /\ no_of_sizes = 2
    /\ CandidateSizes = 1..3
    /\ Len(likely_key_sizes.sizes) = 2
    /\ \A i \in 1..2 : likely_key_sizes.sizes[i] # 1
    /\ ScoreOf(1) > ScoreOf(2)
    /\ ScoreOf(1) > ScoreOf(3)

-----------------------------------------------------------------------------
(* get_sized_key, one key byte per step.                                   *)

MaxSizedLen == 4

\* 'a', ' ' and 0x80
SizedBytes == {97, 32, 128}
SizedKeySizes == 0..3

InitSizedKey ==
    /\ pc = "sk_loop"
    /\ encoded_msg \in SeqsUpTo(SizedBytes, MaxSizedLen)
    /\ key_size \in SizedKeySizes
    /\ reference_percentages \in ReferenceTables
    /\ key = <<>>
    /\ key_byte_no = 0
    /\ sized_key_result = NoSizedKey
    /\ IdleHamming
    /\ IdleXor
    /\ IdleCrack
    /\ IdleEstimator
    /\ IdleRepeating
    /\ IdleFrequency
    /\ IdleFile
    /\ IdleCodec

notSkVars ==
    <<hammingVars, xorVars, crackVars, estVars, rkVars, freqVars, fileVars,
      codecVars>>

\* The cracker found the key byte: it is pushed.
SizedKeyByte ==
    /\ pc = "sk_loop"
    /\ key_byte_no < key_size
    /\ \E r \in {SizedKeyIteration(encoded_msg, key_size,
                                   reference_percentages, key_byte_no, key)} :
        /\ ~r.failed
        /\ key' = r.key
    /\ key_byte_no' = key_byte_no + 1
    /\ UNCHANGED <<pc, key_size, encoded_msg, reference_percentages,
                   sized_key_result>>
    /\ UNCHANGED notSkVars

\* The cracker failed: `?` returns its error.
SizedKeyFail ==
    /\ pc = "sk_loop"
    /\ key_byte_no < key_size
    /\ SizedKeyIteration(encoded_msg, key_size, reference_percentages,
                         key_byte_no, key).failed
    /\ sized_key_result' = [ok |-> FALSE, key |-> <<>>]
    /\ pc' = "sk_done"
    /\ UNCHANGED <<key, key_size, encoded_msg, reference_percentages,
                   key_byte_no>>
    /\ UNCHANGED notSkVars

SizedKeyReturn ==
    /\ pc = "sk_loop"
    /\ key_byte_no >= key_size
    /\ sized_key_result' = [ok |-> TRUE, key |-> key]
    /\ pc' = "sk_done"
    /\ UNCHANGED <<key, key_size, encoded_msg, reference_percentages,
                   key_byte_no>>
    /\ UNCHANGED notSkVars

NextSizedKey == SizedKeyByte \/ SizedKeyFail \/ SizedKeyReturn

SpecSizedKey == InitSizedKey /\ [][NextSizedKey]_vars

\* The bytes of m at the indices i (from 0) with i mod n = p, in order.
Column(m, n, p) ==
    LET count == IF Len(m) > p THEN ((Len(m) - p - 1) \div n) + 1 ELSE 0
    IN  [j \in 1..count |-> m[p + (j - 1) * n + 1]]

\* C5: get_sized_key is all-or-nothing: when the cracker succeeds on the
\* column of every position the result is Ok with exactly key_size bytes,
\* byte p the cracker's key for the column of position p; when the cracker
\* fails on some column the result is the error, with no partial key.
C5_SizedKeyAllOrNothing ==
    pc = "sk_done" =>
        \A cracked \in {[p \in 0..(key_size - 1) |->
                           single_xor_cipher_crack(
                               Column(encoded_msg, key_size, p),
                               reference_percentages)]} :
            IF \A p \in 0..(key_size - 1) : cracked[p].ok
            THEN /\ sized_key_result.ok
                 /\ Len(sized_key_result.key) = key_size
                 /\ \A p \in 0..(key_size - 1) :
                        sized_key_result.key[p + 1] = cracked[p].key
            ELSE sized_key_result = [ok |-> FALSE, key |-> <<>>]

C5_Witness ==
    /\ pc = "sk_done"
    /\ encoded_msg = <<97, 128, 97, 128>>
    /\ key_size = 2
    /\ sized_key_result = [ok |-> TRUE, key |-> <<0, 225>>]

-----------------------------------------------------------------------------
(* crack_base64_repeating_key_xor, from the point where the ciphertext and *)
(* the reference file were read: one key size per step.                    *)

MaxBufferLen == 5

\* 'a' and the two bytes of U+00E9
BufferBytes == {97, 195, 169}

\* <<min_key_size, max_key_size, no_of_sizes>>
RkSizeRequests == {<<1, 2, 2>>, <<2, 2, 1>>, <<1, 2, 0>>}

\* 2 * 256 + 1 zero bytes: 256 is a candidate key size.
RkLongBuffer == [i \in 1..(2 * U8Range + 1) |-> 0]

RkInputs ==
    (SeqsUpTo(BufferBytes, MaxBufferLen) \X RkSizeRequests)
    \cup ({RkLongBuffer} \X {<<U8Range, U8Range, 1>>})

InitRepeating ==
    /\ pc = "rk_start"
    /\ \E in \in RkInputs :
        /\ buffer = in[1]
        /\ min_key_size = in[2][1]
        /\ max_key_size = in[2][2]
        /\ no_of_sizes = in[2][3]
    /\ msg_repeat = 1
    /\ reference_percentages \in ReferenceTables
    /\ likely_key_sizes = NoKeySizes
    /\ keysizes = <<>>
    /\ key_size = 0
    /\ key = <<>>
    /\ encoded_msg = <<>>
    /\ sizes_tried = 0
    /\ best_chi_squared = None(RInt(0))
    /\ best_decoded = None(<<>>)
    /\ repeating_result = NoDecoding
    /\ IdleHamming
    /\ IdleXor
    /\ IdleCrack
    /\ IdleSizedKey
    /\ IdleFrequency
    /\ IdleFile
    /\ IdleCodec

notRkVars ==
    <<key, encoded_msg, keysizes, hammingVars, xorVars, crackVars, skVars,
      freqVars, fileVars, codecVars>>

\* `let likely_key_sizes = get_likely_key_sizes(&buffer, ..)`, with
\* best_chi_squared and best_decoded set to None.
RkEstimate ==
    /\ pc = "rk_start"
    /\ \E order \in HeapOrders(get_likely_key_sizes(
                        buffer, min_key_size, max_key_size, no_of_sizes).heap) :
        likely_key_sizes' = [panic |-> FALSE, sizes |-> KeySizesOf(order)]
    /\ sizes_tried' = 0
    /\ best_chi_squared' = None(RInt(0))
    /\ best_decoded' = None(<<>>)
    /\ pc' = "rk_loop"
    /\ UNCHANGED <<key_size, reference_percentages, buffer, min_key_size,
                   max_key_size, no_of_sizes, msg_repeat, repeating_result>>
    /\ UNCHANGED notRkVars

\* One iteration of `for key_size in likely_key_sizes`.
RkKeySize ==
    /\ pc = "rk_loop"
    /\ sizes_tried < Len(likely_key_sizes.sizes)
    /\ key_size' = likely_key_sizes.sizes[sizes_tried + 1]
    /\ \E r \in {TryKeySize(buffer, likely_key_sizes.sizes[sizes_tried + 1],
                            reference_percentages)} :
        /\ pc' = IF r.kind = "panic" THEN "rk_panic" ELSE pc
        /\ sizes_tried' = IF r.kind = "panic" THEN sizes_tried
                          ELSE sizes_tried + 1
        /\ IF r.kind = "scored" /\ IsBetter(r.chi, best_chi_squared)
           THEN /\ best_chi_squared' = Some(r.chi)
                /\ best_decoded' = Some(r.text)
           ELSE UNCHANGED <<best_chi_squared, best_decoded>>
    /\ UNCHANGED <<reference_percentages, buffer, min_key_size, max_key_size,
                   no_of_sizes, msg_repeat, likely_key_sizes, repeating_result>>
    /\ UNCHANGED notRkVars

\* `match best_decoded { Some(ret) => Ok(ret), _ => Err(..) }`
RkReturn ==
    /\ pc = "rk_loop"
    /\ sizes_tried >= Len(likely_key_sizes.sizes)
    /\ repeating_result' = IF best_decoded.some
                           THEN [ok |-> TRUE, text |-> best_decoded.val]
                           ELSE NoDecoding
    /\ pc' = "rk_done"
    /\ UNCHANGED <<key_size, reference_percentages, buffer, min_key_size,
                   max_key_size, no_of_sizes, msg_repeat, likely_key_sizes,
                   sizes_tried, best_chi_squared, best_decoded>>
    /\ UNCHANGED notRkVars

NextRepeating == RkEstimate \/ RkKeySize \/ RkReturn

SpecRepeating == InitRepeating /\ [][NextRepeating]_vars

\* The candidate key sizes the search iterates over.
RkCandidates ==
    {likely_key_sizes.sizes[i] : i \in 1..Len(likely_key_sizes.sizes)}

\* The result is NoValidDecoding when no candidate was scored, and
\* otherwise a scored decoding of minimal chi-squared.
RkResultIsBest ==
    \A outcome \in {[size \in RkCandidates |->
                       TryKeySize(buffer, size, reference_percentages)]} :
        LET scored == {size \in RkCandidates : outcome[size].kind = "scored"}
        IN  IF scored = {} THEN repeating_result = NoDecoding
            ELSE /\ repeating_result.ok
                 /\ \E size \in scored :
                     /\ repeating_result.text = outcome[size].text
                     /\ \A other \in scored :
                         ~RLess(outcome[other].chi, outcome[size].chi)

\* C6: the search always returns: the NoValidDecoding error when every
\* candidate key size failed key recovery or decoded to invalid UTF-8 (or
\* there is no candidate), and otherwise the decoding of minimal chi-squared
\* among the candidates that were scored; no candidate ends the search early.
C6_BestDecodingOrNoValidDecoding ==
    /\ pc # "rk_panic"
    /\ pc = "rk_done" =>
        /\ sizes_tried = Len(likely_key_sizes.sizes)
        /\ RkResultIsBest

-----------------------------------------------------------------------------
(* get_character_percentages and get_chi_squared: the percentages of a     *)
(* text are taken and scored against a reference table.                    *)

MaxTextLen == 3

\* 'a', 'b' and '\n'
FreqChars == {97, 98, 10}

FreqTexts == SeqsUpTo(FreqChars, MaxTextLen)

\* Reference tables: the percentages of the non-empty texts.
FreqTables == {get_character_percentages(t) : t \in FreqTexts \ {<<>>}}

InitFrequency ==
    /\ pc = "freq_start"
    /\ sample_text \in FreqTexts
    /\ reference_percentages \in FreqTables
    /\ sample_percentages = <<>>
    /\ msg_percentages = <<>>
    /\ chi_squared = NoChiSquared
    /\ key = <<>>
    /\ key_size = 0
    /\ encoded_msg = <<>>
    /\ IdleHamming
    /\ IdleXor
    /\ IdleCrack
    /\ IdleEstimator
    /\ IdleSizedKey
    /\ IdleRepeating
    /\ IdleFile
    /\ IdleCodec

notFreqVars ==
    <<key, key_size, encoded_msg, hammingVars, xorVars, crackVars, estVars,
      skVars, rkVars, fileVars, codecVars>>

\* `let decoded_percentages = get_character_percentages(text)`
FreqPercentages ==
    /\ pc = "freq_start"
    /\ sample_percentages' = get_character_percentages(sample_text)
    /\ pc' = "freq_chi"
    /\ UNCHANGED <<sample_text, reference_percentages, msg_percentages,
                   chi_squared>>
    /\ UNCHANGED notFreqVars

\* `get_chi_squared(&reference_percentages, decoded_percentages)`
FreqChiSquared ==
    /\ pc = "freq_chi"
    /\ msg_percentages' = sample_percentages
    /\ chi_squared' =
           Some(get_chi_squared(reference_percentages, sample_percentages))
    /\ pc' = "freq_done"
    /\ UNCHANGED <<sample_text, reference_percentages, sample_percentages>>
    /\ UNCHANGED notFreqVars

NextFrequency == FreqPercentages \/ FreqChiSquared

SpecFrequency == InitFrequency /\ [][NextFrequency]_vars

\* A table is non-degenerate: non-empty, every percentage strictly positive.
NonDegenerate(table) ==
    /\ DOMAIN table # {}
    /\ \A c \in DOMAIN table : RLess(RInt(0), table[c])

\* C11: get_chi_squared(R, R) = 0 for a non-degenerate table R: when the
\* message map passed equals the reference, no character of the message is
\* left for the second pass and the score is 0.
C11_ChiSquaredOfItselfIsZero ==
    (/\ pc = "freq_done"
     /\ msg_percentages = reference_percentages
     /\ NonDegenerate(reference_percentages)) =>
        /\ DOMAIN msg_percentages \ DOMAIN reference_percentages = {}
        /\ chi_squared = Some(RInt(0))

C11_Witness ==
    /\ pc = "freq_done"
    /\ sample_text = <<97, 98, 97>>
    /\ msg_percentages = reference_percentages
    /\ Cardinality(DOMAIN reference_percentages) = 2
    /\ chi_squared = Some(RInt(0))

\* Number of times c occurs in t.
Occurrences(t, c) == Cardinality({i \in 1..Len(t) : t[i] = c})

RECURSIVE RSum(_, _)
RSum(table, chars) ==
    IF chars = {} THEN RInt(0)
    ELSE LET c == CHOOSE x \in chars : TRUE
         IN  RAdd(table[c], RSum(table, chars \ {c}))

\* C12: get_character_percentages returns the empty table for the empty
\* text; for a non-empty text the keys are exactly the characters of the
\* text, each value is count / (total_chars / 100), and the values sum to
\* 100.
C12_PercentagesOfText ==
    pc \in {"freq_chi", "freq_done"} =>
        IF sample_text = <<>> THEN sample_percentages = <<>>
        ELSE /\ DOMAIN sample_percentages
                  = {sample_text[i] : i \in 1..Len(sample_text)}
             /\ \A c \in DOMAIN sample_percentages :
                    sample_percentages[c]
                      = RNorm(Occurrences(sample_text, c) * 100,
                              Len(sample_text))
             /\ RSum(sample_percentages, DOMAIN sample_percentages)
                  = RInt(100)

C12_Witness ==
    /\ pc = "freq_chi"
    /\ sample_text = <<97, 97, 98>>
    /\ sample_percentages = (97 :> <<200, 3>>) @@ (98 :> <<100, 3>>)

-----------------------------------------------------------------------------
(* get_file_character_percentages: the reference file is read a line at a  *)
(* time with read_line, which appends to `line`.                           *)

MaxLines == 3
LongLineLen == 49

\* `(total_chars / 100) as f32`
PercentDivisor == 100

\* The lines read_line yields: "a\n", "b\n" and a long line of 'a's.
FileLineSet ==
    {<<97, 10>>, <<98, 10>>, [i \in 1..LongLineLen |-> 97] \o <<10>>}

\* The result of an f32 division by 0.0 of a positive value.
Infinity == <<1, 0>>
Finite(x) == x[2] # 0

\* `count as f32 / divisor as f32`
CountOverDivisor(count, divisor) ==
    IF divisor = 0 THEN Infinity ELSE RNorm(count, divisor)

\* `for (c, frequency) in get_character_frequencies(&line)`: the counts of
\* the line are added to the running counts.
AddFrequencies(running, line_counts) ==
    [c \in DOMAIN running \cup DOMAIN line_counts |->
        (IF c \in DOMAIN running THEN running[c] ELSE 0)
      + (IF c \in DOMAIN line_counts THEN line_counts[c] ELSE 0)]

RECURSIVE SumCounts(_, _)
SumCounts(table, chars) ==
    IF chars = {} THEN 0
    ELSE LET c == CHOOSE x \in chars : TRUE
         IN  table[c] + SumCounts(table, chars \ {c})

\* "Remember the newline character too"
AddNewline(running) == AddFrequencies(running, (10 :> 1))

\* The final map: each count over total_chars / 100, an integer division.
FileFrequencies(running, total) ==
    [c \in DOMAIN running |->
        CountOverDivisor(running[c], total \div PercentDivisor)]

InitFile ==
    /\ pc = "file_loop"
    /\ file_lines \in SeqsUpTo(FileLineSet, MaxLines)
    /\ lines_read = 0
    /\ line = <<>>
    /\ file_counts = <<>>
    /\ counted_chars = 0
    /\ frequencies = <<>>
    /\ key = <<>>
    /\ key_size = 0
    /\ encoded_msg = <<>>
    /\ reference_percentages = <<>>
    /\ IdleHamming
    /\ IdleXor
    /\ IdleCrack
    /\ IdleEstimator
    /\ IdleSizedKey
    /\ IdleRepeating
    /\ IdleFrequency
    /\ IdleCodec

notFileVars ==
    <<key, key_size, encoded_msg, reference_percentages, hammingVars, xorVars,
      crackVars, estVars, skVars, rkVars, freqVars, codecVars>>

\* One iteration of `while reader.read_line(&mut line)? > 0`.
FileReadLine ==
    /\ pc = "file_loop"
    /\ lines_read < Len(file_lines)
    /\ \E appended \in {line \o file_lines[lines_read + 1]} :
       \E line_counts \in {get_character_frequencies(appended)} :
        /\ line' = appended
        /\ file_counts' = AddNewline(AddFrequencies(file_counts, line_counts))
        /\ counted_chars' =
               counted_chars + SumCounts(line_counts, DOMAIN line_counts) + 1
    /\ lines_read' = lines_read + 1
    /\ UNCHANGED <<pc, file_lines, frequencies>>
    /\ UNCHANGED notFileVars

\* read_line returned 0: the counts are turned into percentages.
FileReturn ==
    /\ pc = "file_loop"
    /\ lines_read >= Len(file_lines)
    /\ frequencies' = FileFrequencies(file_counts, counted_chars)
    /\ pc' = "file_done"
    /\ UNCHANGED <<file_lines, lines_read, line, file_counts, counted_chars>>
    /\ UNCHANGED notFileVars

NextFile == FileReadLine \/ FileReturn

SpecFile == InitFile /\ [][NextFile]_vars

\* C13: for a non-empty corpus the table returned is a valid frequency
\* table: every entry is a finite percentage and the entries sum to 100.
C13_FileTableIsValid ==
    (pc = "file_done" /\ file_lines # <<>>) =>
        /\ \A c \in DOMAIN frequencies : Finite(frequencies[c])
        /\ RSum(frequencies, DOMAIN frequencies) = RInt(100)

\* Occurrences of c in the first n lines, each line taken once.
RECURSIVE OccurrencesInLines(_, _, _)
OccurrencesInLines(lines, n, c) ==
    IF n = 0 THEN 0
    ELSE Occurrences(lines[n], c) + OccurrencesInLines(lines, n - 1, c)

\* C17: after n lines were read the count of every character is the number
\* of its occurrences in those n lines, each line taken once, plus one '\n'
\* per line read, and total_chars is the sum of the counts.
C17_LinesCountedOnce ==
    pc \in {"file_loop", "file_done"} =>
        /\ \A c \in DOMAIN file_counts :
               file_counts[c]
                 = OccurrencesInLines(file_lines, lines_read, c)
                   + (IF c = 10 THEN lines_read ELSE 0)
        /\ \A i \in 1..lines_read : \A j \in 1..Len(file_lines[i]) :
               file_lines[i][j] \in DOMAIN file_counts
        /\ counted_chars = SumCounts(file_counts, DOMAIN file_counts)

-----------------------------------------------------------------------------
(* The codecs: hex_to_binary_buffer (crypto_utilities),                    *)
(* base64_to_binary_buf (break_repeating_key_xor_6) and                    *)
(* base64_buf_to_utf8_string (hex_to_base64_1).  A string is the sequence  *)
(* of its characters' code points.                                         *)

\* u8 `|`, `<<` and `>>`
Or(a, b) == a + b - And(a, b)
Shl(x, n) == (x * (2 ^ n)) % 256
Shr(x, n) == x \div (2 ^ n)

\* `c.to_digit(16)`
to_digit(c) ==
    IF c >= 48 /\ c <= 57 THEN Some(c - 48)
    ELSE IF c >= 97 /\ c <= 102 THEN Some(c - 97 + 10)
    ELSE IF c >= 65 /\ c <= 70 THEN Some(c - 65 + 10)
    ELSE None(0)

\* The loop of hex_to_binary_buffer from character idx (from 0) on.
RECURSIVE HexLoop(_, _, _, _)
HexLoop(str, idx, cur_byte, result) ==
    IF idx >= Len(str) THEN [ok |-> TRUE, bytes |-> result, cur |-> cur_byte]
    ELSE LET hex_mask == to_digit(str[idx + 1])
         IN  IF ~hex_mask.some THEN [ok |-> FALSE, bytes |-> <<>>, cur |-> 0]
             ELSE IF idx % 2 = 0
             THEN HexLoop(str, idx + 1, Shl(hex_mask.val, 4), result)
             ELSE HexLoop(str, idx + 1, 0,
                          Append(result, Or(cur_byte, hex_mask.val)))

hex_to_binary_buffer(str) ==
    IF str = <<>> THEN [ok |-> TRUE, bytes |-> <<>>]
    ELSE LET looped == HexLoop(str, 0, 0, <<>>)
         IN  IF ~looped.ok THEN NoBuffer
             ELSE IF Len(str) % 2 = 1
             THEN [ok |-> TRUE, bytes |-> Append(looped.bytes, looped.cur)]
             ELSE [ok |-> TRUE, bytes |-> looped.bytes]

\* The three outcomes of char_to_base64_value: Ok(Some(v)), Ok(None), Err.
char_to_base64_value(c) ==
    IF c >= 65 /\ c <= 90 THEN [ok |-> TRUE, some |-> TRUE, val |-> c - 65]
    ELSE IF c >= 97 /\ c <= 122
    THEN [ok |-> TRUE, some |-> TRUE, val |-> c - 97 + 26]
    ELSE IF c >= 48 /\ c <= 57
    THEN [ok |-> TRUE, some |-> TRUE, val |-> c - 48 + 52]
    ELSE IF c = 43 THEN [ok |-> TRUE, some |-> TRUE, val |-> 62]
    ELSE IF c = 47 THEN [ok |-> TRUE, some |-> TRUE, val |-> 63]
    ELSE IF c = 61 THEN [ok |-> TRUE, some |-> FALSE, val |-> 0]
    ELSE [ok |-> FALSE, some |-> FALSE, val |-> 0]

\* A value stored into temp at position idx % 4.
StoreValue(temp, pos, v) ==
    CASE pos = 0 -> <<Shl(v, 2), temp[2], temp[3]>>
      [] pos = 1 -> <<Or(temp[1], Shr(v, 4)), Shl(v, 4), temp[3]>>
      [] pos = 2 -> <<temp[1], Or(temp[2], Shr(v, 2)), Shl(v, 6)>>
      [] OTHER   -> <<temp[1], temp[2], Or(temp[3], v)>>

\* The bytes pushed when padding is met at position idx % 4.
PaddingBytes(temp, pos) ==
    CASE pos = 0 -> <<>>
      [] pos = 1 -> <<temp[1]>>
      [] pos = 2 -> <<temp[1], temp[2]>>
      [] OTHER   -> temp

\* The loop of base64_to_binary_buf from character idx (from 0) on.
RECURSIVE Base64Loop(_, _, _, _)
Base64Loop(str, idx, temp, buf) ==
    IF idx >= Len(str) THEN [ok |-> TRUE, bytes |-> buf]
    ELSE LET base64_value == char_to_base64_value(str[idx + 1])
             stored == StoreValue(temp, idx % 4, base64_value.val)
         IN  IF ~base64_value.ok THEN NoBuffer
             ELSE IF ~base64_value.some
             THEN [ok |-> TRUE, bytes |-> buf \o PaddingBytes(temp, idx % 4)]
             ELSE IF idx % 4 = 3
             THEN Base64Loop(str, idx + 1, <<0, 0, 0>>, buf \o stored)
             ELSE Base64Loop(str, idx + 1, stored, buf)

base64_to_binary_buf(str) == Base64Loop(str, 0, <<0, 0, 0>>, <<>>)

\* base64_u8_to_utf8_char, for the values below 64 that reach it.
base64_u8_to_utf8_char(v) ==
    IF v < 26 THEN 65 + v
    ELSE IF v < 52 THEN 97 + (v - 26)
    ELSE IF v < 62 THEN 48 + (v - 52)
    ELSE IF v = 62 THEN 43
    ELSE 47

\* The loop of base64_buf_to_utf8_string from byte idx (from 0) on.
RECURSIVE EncodeLoop(_, _, _, _)
EncodeLoop(buf, idx, leftovers, result) ==
    IF idx >= Len(buf) THEN [text |-> result, leftovers |-> leftovers]
    ELSE LET byte == buf[idx + 1]
         IN  IF idx % 3 = 0
             THEN EncodeLoop(buf, idx + 1, Shl(And(byte, 3), 4),
                      Append(result, base64_u8_to_utf8_char(Shr(byte, 2))))
             ELSE IF idx % 3 = 1
             THEN EncodeLoop(buf, idx + 1, Shl(And(byte, 15), 2),
                      Append(result, base64_u8_to_utf8_char(
                                         Or(leftovers, Shr(byte, 4)))))
             ELSE EncodeLoop(buf, idx + 1, leftovers,
                      result \o <<base64_u8_to_utf8_char(
                                      Or(leftovers, Shr(byte, 6))),
                                  base64_u8_to_utf8_char(And(byte, 63))>>)

\* `while result.len() % 4 != 0 { result.push('=') }`
RECURSIVE PadToFour(_)
PadToFour(result) ==
    IF Len(result) % 4 = 0 THEN result ELSE PadToFour(Append(result, 61))

base64_buf_to_utf8_string(buf) ==
    IF buf = <<>> THEN <<>>
    ELSE LET looped == EncodeLoop(buf, 0, 0, <<>>)
         IN  PadToFour(IF Len(buf) % 3 # 0
                       THEN Append(looped.text,
                                   base64_u8_to_utf8_char(looped.leftovers))
                       ELSE looped.text)

MaxHexLen == 3
MaxBase64Len == 4

\* '0', 'f', 'A' and 'g'
HexChars == {48, 102, 65, 103}

\* 'A', 'Q', '/', '=' and '*'
Base64Chars == {65, 81, 47, 61, 42}

\* A hex string is decoded, or a base64 string is decoded and encoded again.
CodecInputs ==
    (SeqsUpTo(HexChars, MaxHexLen) \X {<<>>})
    \cup ({<<>>} \X SeqsUpTo(Base64Chars, MaxBase64Len))

InitCodec ==
    /\ pc = "codec_hex"
    /\ \E in \in CodecInputs : hex = in[1] /\ base64 = in[2]
    /\ hex_buffer = NoBuffer
    /\ base64_buffer = NoBuffer
    /\ base64_string = <<>>
    /\ key = <<>>
    /\ key_size = 0
    /\ encoded_msg = <<>>
    /\ reference_percentages = <<>>
    /\ IdleHamming
    /\ IdleXor
    /\ IdleCrack
    /\ IdleEstimator
    /\ IdleSizedKey
    /\ IdleRepeating
    /\ IdleFrequency
    /\ IdleFile

notCodecVars ==
    <<key, key_size, encoded_msg, reference_percentages, hammingVars, xorVars,
      crackVars, estVars, skVars, rkVars, freqVars, fileVars>>

HexDecode ==
    /\ pc = "codec_hex"
    /\ hex_buffer' = hex_to_binary_buffer(hex)
    /\ pc' = "codec_base64"
    /\ UNCHANGED <<hex, base64, base64_buffer, base64_string>>
    /\ UNCHANGED notCodecVars

Base64Decode ==
    /\ pc = "codec_base64"
    /\ base64_buffer' = base64_to_binary_buf(base64)
    /\ pc' = "codec_encode"
    /\ UNCHANGED <<hex, base64, hex_buffer, base64_string>>
    /\ UNCHANGED notCodecVars

\* The buffer decoded is encoded again (tests::base64_to_buf_and_back).
Base64Encode ==
    /\ pc = "codec_encode"
    /\ base64_buffer.ok
    /\ base64_string' = base64_buf_to_utf8_string(base64_buffer.bytes)
    /\ pc' = "codec_done"
    /\ UNCHANGED <<hex, base64, hex_buffer, base64_buffer>>
    /\ UNCHANGED notCodecVars

NextCodec == HexDecode \/ Base64Decode \/ Base64Encode

SpecCodec == InitCodec /\ [][NextCodec]_vars

IsHexDigit(c) ==
    (c >= 48 /\ c <= 57) \/ (c >= 97 /\ c <= 102) \/ (c >= 65 /\ c <= 70)

\* A whole number of hex byte pairs made of hex digits.
WellFormedHex(str) ==
    /\ Len(str) % 2 = 0
    /\ \A i \in 1..Len(str) : IsHexDigit(str[i])

IsBase64Char(c) ==
    \/ (c >= 65 /\ c <= 90) \/ (c >= 97 /\ c <= 122) \/ (c >= 48 /\ c <= 57)
    \/ c = 43 \/ c = 47

\* The number of trailing '=' of a string.
RECURSIVE TrailingPadding(_)
TrailingPadding(str) ==
    IF str # <<>> /\ str[Len(str)] = 61
    THEN 1 + TrailingPadding(SubSeq(str, 1, Len(str) - 1))
    ELSE 0

\* Well-formed base64: a multiple of 4 characters, alphabet characters
\* followed by at most two '=' that end the string.
WellFormedBase64(str) ==
    /\ Len(str) % 4 = 0
    /\ TrailingPadding(str) <= 2
    /\ \A i \in 1..(Len(str) - TrailingPadding(str)) : IsBase64Char(str[i])

\* C14: the decoders fail on malformed input: hex_to_binary_buffer returns
\* Ok only for a whole number of hex digit pairs, base64_to_binary_buf only
\* for well-formed base64.
C14_DecodersRejectMalformed ==
    /\ (pc # "codec_hex" /\ hex_buffer.ok) => WellFormedHex(hex)
    /\ (pc \in {"codec_encode", "codec_done"} /\ base64_buffer.ok)
           => WellFormedBase64(base64)

\* The 6-bit values of the data characters of a well-formed string.
Sextets(str) ==
    [i \in 1..(Len(str) - TrailingPadding(str)) |->
        char_to_base64_value(str[i]).val]

\* Canonical base64: well-formed, and the bits of the last data character
\* that encode nothing are zero.
CanonicalBase64(str) ==
    /\ WellFormedBase64(str)
    /\ TrailingPadding(str) = 1 => Sextets(str)[Len(str) - 1] % 4 = 0
    /\ TrailingPadding(str) = 2 => Sextets(str)[Len(str) - 2] % 16 = 0

\* The number of bytes a canonical string encodes.
EncodedLength(str) == 3 * (Len(str) \div 4) - TrailingPadding(str)

\* C15: for a canonical base64 string, decoding and encoding again gives
\* the string back, and the decoded buffer has the number of bytes the
\* string encodes.
C15_Base64RoundTrip ==
    (pc = "codec_done" /\ CanonicalBase64(base64)) =>
        /\ base64_string = base64
        /\ Len(base64_buffer.bytes) = EncodedLength(base64)

-----------------------------------------------------------------------------
(* Further properties of the key-length estimator.                         *)

\* The number of whole blocks of L bytes in m.
WholeBlocks(m, L) == Len(m) \div L

\* The sum of the Hamming distances of every pair of consecutive whole
\* blocks of L bytes: byte i is compared with byte i + L.
PairDistanceSum(m, L) ==
    Cardinality({p \in (1..((WholeBlocks(m, L) - 1) * L)) \X (0..7) :
                     Bit(m[p[1]], p[2]) # Bit(m[p[1] + L], p[2])})

\* The score as stated: the sum over the block pairs, divided by the number
\* of block pairs, times 1000, divided by L.
PairAverageScore(m, L) ==
    ((PairDistanceSum(m, L) \div (WholeBlocks(m, L) - 1)) * 1000) \div L

\* C16: the score held for a candidate length L is the sum of the Hamming
\* distances of the consecutive block pairs divided by the number of block
\* pairs (one less than the number of whole blocks), times 1000, divided by
\* L, in integer arithmetic.
C16_ScoreAveragesOverBlockPairs ==
    (no_of_sizes >= 1 /\ pc \in {"ks_loop", "ks_done"}) =>
        \A i \in 1..Len(keysizes) : \E size \in ProcessedSizes :
            keysizes[i] = <<PairAverageScore(encoded_msg, size), AsU8(size)>>

\* C19: every key size returned is one of the candidate lengths evaluated,
\* unchanged: it lies in max(1, min_key_size) ..
\* min(max_key_size, len / 2), so it is at least 1.
C19_ReturnedSizesAreCandidates ==
    pc = "ks_done" =>
        \A i \in 1..Len(likely_key_sizes.sizes) :
            /\ likely_key_sizes.sizes[i] \in CandidateSizes
            /\ likely_key_sizes.sizes[i] >= 1


-----------------------------------------------------------------------------
(* Tie-breaking of the single-byte cracker.                                *)

\* The valid keys whose score no valid key beats.
MinimumKeys(score) ==
    {k \in DOMAIN score : \A j \in DOMAIN score : ~RLess(score[j], score[k])}

\* On return: of several keys at the minimum the smallest is the one
\* returned, and an empty ciphertext gives key 0 with the empty plaintext.
C18_SmallestKeyReturned ==
    pc = "crack_done" =>
        \A score \in {[k \in ValidKeys(encoded_bytes) |->
                          KeyScore(k, encoded_bytes, reference_percentages)]} :
            /\ Cardinality(MinimumKeys(score)) >= 2 =>
                   /\ crack_result.ok
                   /\ crack_result.key \in MinimumKeys(score)
                   /\ \A k \in MinimumKeys(score) : crack_result.key <= k
            /\ encoded_bytes = <<>> =>
                   crack_result = [ok |-> TRUE, key |-> 0, text |-> <<>>]

\* In the loop: once a best key exists, the key being tried replaces it
\* exactly when it decodes and its score is strictly smaller.
C18_ReplacedOnlyWhenStrictlySmaller ==
    (pc = "crack_loop" /\ try_key' = try_key + 1 /\ smallest_chi.some) =>
        (best_key' # best_key <=>
            /\ apply_xor_cipher(try_key, encoded_bytes).ok
            /\ RLess(KeyScore(try_key, encoded_bytes, reference_percentages),
                     smallest_chi.val))

\* C18: when several candidate keys reach the same minimum chi-squared
\* score the cracker returns the smallest of them, a later key replaces the
\* best so far only when its score is strictly smaller, and an empty
\* ciphertext yields key 0 with the empty plaintext.
C18_TieBreakSmallestKey ==
    /\ [] C18_SmallestKeyReturned
    /\ [][C18_ReplacedOnlyWhenStrictlySmaller]_vars

\* "a " is returned under key 0 although key 0x41 (" a") scores the same.
C18_Witness ==
    /\ pc = "crack_done"
    /\ encoded_bytes = <<97, 32>>
    /\ crack_result = [ok |-> TRUE, key |-> 0, text |-> <<97, 32>>]
    /\ KeyScore(65, encoded_bytes, reference_percentages)
           = KeyScore(0, encoded_bytes, reference_percentages)
    /\ \A k \in ValidKeys(encoded_bytes) :
           ~RLess(KeyScore(k, encoded_bytes, reference_percentages),
                  KeyScore(0, encoded_bytes, reference_percentages))


-----------------------------------------------------------------------------
(* Aborts of the key-length estimator.                                     *)

\* C20: get_likely_key_sizes never aborts, for any ciphertext and any
\* min_key_size, max_key_size and no_of_sizes: the divisor is never zero,
\* the blocks compared have equal lengths and lie within the message; and
\* when len < 2 * max(1, min_key_size) or min_key_size > max_key_size the
\* result is the empty sequence.
C20_NeverAborts ==
    /\ pc # "ks_panic"
    /\ ~likely_key_sizes.panic
    /\ pc = "ks_done" =>
        ((\/ Len(encoded_msg) * msg_repeat < 2 * FirstKeySize(min_key_size)
          \/ min_key_size > max_key_size)
            => likely_key_sizes.sizes = <<>>)

=============================================================================
